---- MODULE Spec2Model ----
(***************************************************************************)
(* Model of tools/generate_conda_file.py: the script that merges the       *)
(* static package tables according to the host platform and the --gpu flag *)
(* and writes the conda environment manifest <name>.yaml.                  *)
(*                                                                         *)
(* A package table (a Python dict) is a sequence of <<key, specifier>>     *)
(* pairs in insertion order.  The module-level tables live in the heap     *)
(* `tables`; conda_packages and pip_packages are references into it, as    *)
(* the assignments at lines 128-129 bind names and copy nothing.           *)
(* Strings handled character-wise by the code (sys.platform, tested with   *)
(* startswith) are sequences of one-character strings.                     *)
(***************************************************************************)
EXTENDS Integers, Sequences, FiniteSets, TLC

VARIABLES
    platform,        \* sys.platform, fixed when the module is loaded
    tables,          \* module-level dicts, by name
    pc,              \* position of the main block
    args,            \* parsed command line: [name, gpu]
    conda_env,       \* resolved environment name
    conda_packages,  \* name of the dict conda_packages refers to
    pip_packages,    \* name of the dict pip_packages refers to
    conda_file,      \* name of the output file
    opened,          \* the output file is open
    out,             \* strings written to the output file, in order
    stdout,          \* strings printed
    tables0,         \* contents of the tables when the invocation started
    history,         \* manifests completed so far, with their inputs
    runs             \* number of invocations started

vars == <<platform, tables, pc, args, conda_env, conda_packages, pip_packages,
          conda_file, opened, out, stdout, tables0, history, runs>>

-----------------------------------------------------------------------------
(* Bounds *)

\* number of times the main block runs over the same module-level tables
MaxRuns == 3

-----------------------------------------------------------------------------
(* Values *)

None == <<>>
Unset == "<unset>"

\* values of --name tried
Names == {"foo", "nlp_gpu"}
NameArgs == {None} \cup {<<n>> : n \in Names}

darwin == <<"d", "a", "r", "w", "i", "n">>
linux == <<"l", "i", "n", "u", "x">>
linux2 == <<"l", "i", "n", "u", "x", "2">>
win32 == <<"w", "i", "n", "3", "2">>
cygwin == <<"c", "y", "g", "w", "i", "n">>
freebsd == <<"f", "r", "e", "e", "b", "s", "d", "1", "2">>

\* values of sys.platform tried
Platforms == {darwin, linux, linux2, win32, cygwin, freebsd}

\* str.startswith
StartsWith(s, prefix) ==
    /\ Len(s) >= Len(prefix)
    /\ SubSeq(s, 1, Len(prefix)) = prefix

-----------------------------------------------------------------------------
(* Static data, lines 19-99 *)

PH == "{conda_env}"

\* HELP_MSG split at its newlines; each line is a sequence of literal pieces
\* and {conda_env} fields.  The backslash at the end of line 28 joins lines
\* 28 and 29 into one.
HELP_MSG ==
    << <<>>,
       <<"To create the conda environment:">>,
       <<"$ conda env create -f ", PH, ".yaml">>,
       <<>>,
       <<"To update the conda environment:">>,
       <<"$ conda env update -f ", PH, ".yaml">>,
       <<>>,
       <<"To register the conda environment in Jupyter:">>,
       <<"$ conda activate ", PH>>,
       <<"$ python -m ipykernel install --user --name ", PH,
         " --display-name \"Python (", PH, ")\"">>,
       <<>> >>

\* CHANNELS gone wrong: the channels in alphabetical order
CHANNELS_Sorted == <<"conda-forge", "defaults", "pytorch">>

CHANNELS == <<"defaults", "conda-forge", "pytorch">>

CONDA_BASE ==
    << <<"python", "python==3.6.8">>,
       <<"pip", "pip>=19.1.1">>,
       <<"ipykernel", "ipykernel>=4.6.1">>,
       <<"jupyter", "jupyter>=1.0.0">>,
       <<"matplotlib", "matplotlib>=2.2.2">>,
       <<"numpy", "numpy>=1.13.3">>,
       <<"pandas", "pandas>=0.24.2">>,
       <<"pytest", "pytest>=3.6.4">>,
       <<"pytorch", "pytorch-cpu>=1.0.0">>,
       <<"scipy", "scipy>=1.0.0">>,
       <<"tensorflow", "tensorflow==1.12.0">>,
       <<"h5py", "h5py>=2.8.0">>,
       <<"tensorflow-hub", "tensorflow-hub==0.5.0">>,
       <<"py-xgboost", "py-xgboost<=0.80">> >>

CONDA_GPU ==
    << <<"numba", "numba>=0.38.1">>,
       <<"pytorch", "pytorch>=1.0.0">>,
       <<"tensorflow", "tensorflow-gpu==1.12.0">> >>

PIP_BASE ==
    << <<"allennlp", "allennlp==0.8.4">>,
       <<"azureml-sdk[automl]", "azureml-sdk[automl]==1.0.48">>,
       <<"azureml-train-automl", "azureml-train-automl==1.0.48">>,
       <<"azureml-dataprep", "azureml-dataprep==1.1.8">>,
       <<"azureml-widgets", "azureml-widgets==1.0.48">>,
       <<"azureml-mlflow", "azureml-mlflow>=1.0.43.1">>,
       <<"black", "black>=18.6b4">>,
       <<"cached-property", "cached-property==1.5.1">>,
       <<"dask", "dask[dataframe]==1.2.2">>,
       <<"papermill", "papermill>=1.0.1">>,
       <<"nteract-scrapbook", "nteract-scrapbook>=0.2.1">>,
       <<"pydocumentdb", "pydocumentdb>=2.3.3">>,
       <<"tqdm", "tqdm==4.31.1">>,
       <<"pyemd", "pyemd==0.5.1">>,
       <<"ipywebrtc", "ipywebrtc==0.4.3">>,
       <<"pre-commit", "pre-commit>=1.14.4">>,
       <<"scikit-learn", "scikit-learn>=0.19.0,<=0.20.3">>,
       <<"setuptools_scm", "setuptools_scm==3.2.">>,
       <<"sklearn-crfsuite", "sklearn-crfsuite>=0.3.6">>,
       <<"spacy", "spacy>=2.1.4">>,
       <<"spacy-models",
         "https://github.com/explosion/spacy-models/releases/download/en_core_web_sm-2.1.0/en_core_web_sm-2.1.0.tar.gz">>,
       <<"gensim", "gensim>=3.7.0">>,
       <<"nltk", "nltk>=3.4">>,
       <<"pytorch-pretrained-bert", "pytorch-pretrained-bert>=0.6">>,
       <<"seqeval", "seqeval>=0.0.12">> >>

PIP_GPU == <<>>

PIP_DARWIN == <<>>
PIP_DARWIN_GPU == << <<"horovod", "horovod>=0.16.1">> >>

PIP_LINUX == <<>>
PIP_LINUX_GPU == << <<"horovod", "horovod>=0.16.1">> >>
CONDA_LINUX == << <<"cudatoolkit", "cudatoolkit>=9.2">> >>

PIP_WIN32 == <<>>
PIP_WIN32_GPU == <<>>
CONDA_WIN32 ==
    << <<"pytorch", "pytorch==1.0.0">>,
       <<"cudatoolkit", "cuda90">> >>

TableNames ==
    {"CONDA_BASE", "CONDA_GPU", "PIP_BASE", "PIP_GPU",
     "PIP_DARWIN", "PIP_DARWIN_GPU",
     "PIP_LINUX", "PIP_LINUX_GPU", "CONDA_LINUX",
     "PIP_WIN32", "PIP_WIN32_GPU", "CONDA_WIN32"}

\* the module namespace right after the literals of lines 34-99 are evaluated
InitTables ==
    [n \in TableNames |->
        CASE n = "CONDA_BASE" -> CONDA_BASE
          [] n = "CONDA_GPU" -> CONDA_GPU
          [] n = "PIP_BASE" -> PIP_BASE
          [] n = "PIP_GPU" -> PIP_GPU
          [] n = "PIP_DARWIN" -> PIP_DARWIN
          [] n = "PIP_DARWIN_GPU" -> PIP_DARWIN_GPU
          [] n = "PIP_LINUX" -> PIP_LINUX
          [] n = "PIP_LINUX_GPU" -> PIP_LINUX_GPU
          [] n = "CONDA_LINUX" -> CONDA_LINUX
          [] n = "PIP_WIN32" -> PIP_WIN32
          [] n = "PIP_WIN32_GPU" -> PIP_WIN32_GPU
          [] n = "CONDA_WIN32" -> CONDA_WIN32]

-----------------------------------------------------------------------------
(* dict operations *)

\* list(d.keys())
Keys(d) == [i \in 1..Len(d) |-> d[i][1]]

\* list(d.values())
Values(d) == [i \in 1..Len(d) |-> d[i][2]]

KeySet(d) == {d[i][1] : i \in 1..Len(d)}

\* SetItem gone wrong: an existing key keeps its old value, as setdefault does
SetItem_KeepOld(d, k, v) ==
    IF k \in KeySet(d) THEN d ELSE Append(d, <<k, v>>)

\* SetItem gone wrong: the item is appended even when the key exists, as a
\* list of pairs would do
SetItem_AlwaysAppend(d, k, v) == Append(d, <<k, v>>)

\* SetItem gone wrong: an existing key is removed and put last, as
\* OrderedDict.move_to_end or pop-then-insert would do
SetItem_MoveToEnd(d, k, v) ==
    Append(SelectSeq(d, LAMBDA e : e[1] # k), <<k, v>>)

\* d[k] = v : an existing key keeps its position, a new key goes last
SetItem(d, k, v) ==
    IF k \in KeySet(d)
    THEN [i \in 1..Len(d) |-> IF d[i][1] = k THEN <<k, v>> ELSE d[i]]
    ELSE Append(d, <<k, v>>)

\* d.update(o) : d[k] = v for each item of o, in o's order
RECURSIVE Update(_, _)
Update(d, o) ==
    IF o = <<>> THEN d
    ELSE Update(SetItem(d, Head(o)[1], Head(o)[2]), Tail(o))

\* the heap after  dst.update(src)
Upd(h, dst, src) == [h EXCEPT ![dst] = Update(h[dst], h[src])]

-----------------------------------------------------------------------------
(* String formatting *)

RECURSIVE Concat(_)
Concat(pieces) ==
    IF pieces = <<>> THEN ""
    ELSE Head(pieces) \o Concat(Tail(pieces))

\* one line of HELP_MSG.format(conda_env=env)
FormatLine(line, env) ==
    Concat([i \in 1..Len(line) |-> IF line[i] = PH THEN env ELSE line[i]])

\* HELP_MSG.format(conda_env=env).split("\n"), for env without a newline
HelpLines(env) == [i \in 1..Len(HELP_MSG) |-> FormatLine(HELP_MSG[i], env)]

\* HELP_MSG.format(conda_env=env)
HelpText(env) ==
    Concat([i \in 1..(2 * Len(HELP_MSG) - 1) |->
              IF i % 2 = 1 THEN HelpLines(env)[(i + 1) \div 2] ELSE "\n"])

-----------------------------------------------------------------------------
(* The main block, lines 101-167 *)

\* ResolveName gone wrong: the --gpu default is applied after the override
ResolveName_GpuLast(name, gpu) ==
    IF gpu THEN "nlp_gpu"
    ELSE IF name # None THEN name[1] ELSE "nlp_cpu"

\* lines 118-125
ResolveName(name, gpu) ==
    IF name # None THEN name[1]
    ELSE IF gpu THEN "nlp_gpu" ELSE "nlp_cpu"

\* PlatformBranch gone wrong: the last branch is a plain else, nothing raises
PlatformBranch_NoRaise(p) ==
    IF p = darwin THEN "darwin"
    ELSE IF StartsWith(p, linux) THEN "linux"
    ELSE "win32"

\* the branch of lines 132-144 taken for a platform
PlatformBranch(p) ==
    IF p = darwin THEN "darwin"
    ELSE IF StartsWith(p, linux) THEN "linux"
    ELSE IF p = win32 THEN "win32"
    ELSE "unsupported"

Init ==
    /\ platform \in Platforms
    /\ tables = InitTables
    /\ pc = "main"
    /\ args = [name |-> None, gpu |-> FALSE]
    /\ conda_env = Unset
    /\ conda_packages = Unset
    /\ pip_packages = Unset
    /\ conda_file = Unset
    /\ opened = FALSE
    /\ out = <<>>
    /\ stdout = <<>>
    /\ tables0 = InitTables
    /\ history = {}
    /\ runs = 0

\* lines 102-116: parser.parse_args()
ParseArgs ==
    /\ pc = "main"
    /\ \E n \in NameArgs, g \in BOOLEAN : args' = [name |-> n, gpu |-> g]
    /\ pc' = "name"
    /\ runs' = runs + 1
    /\ tables0' = tables
    /\ conda_env' = Unset
    /\ conda_packages' = Unset
    /\ pip_packages' = Unset
    /\ conda_file' = Unset
    /\ out' = <<>>
    /\ stdout' = <<>>
    /\ UNCHANGED <<platform, tables, opened, history>>

\* lines 118-125
SetName ==
    /\ pc = "name"
    /\ conda_env' = ResolveName(args.name, args.gpu)
    /\ pc' = "bind"
    /\ UNCHANGED <<platform, tables, args, conda_packages, pip_packages,
                   conda_file, opened, out, stdout, tables0, history, runs>>

\* lines 127-129: the names are bound to the module-level dicts themselves
BindTables ==
    /\ pc = "bind"
    /\ conda_packages' = "CONDA_BASE"
    /\ pip_packages' = "PIP_BASE"
    /\ pc' = "platform"
    /\ UNCHANGED <<platform, tables, args, conda_env, conda_file, opened,
                   out, stdout, tables0, history, runs>>

\* BranchUpdates gone wrong: win32 has no conda overlay
BranchUpdates_NoWin32Conda(b, cp, pp) ==
    CASE b = "darwin" ->
           << <<pp, "PIP_DARWIN">>,
              <<"PIP_GPU", "PIP_DARWIN_GPU">> >>
      [] b = "linux" ->
           << <<cp, "CONDA_LINUX">>,
              <<pp, "PIP_LINUX">>,
              <<"PIP_GPU", "PIP_LINUX_GPU">> >>
      [] b = "win32" ->
           << <<pp, "PIP_WIN32">>,
              <<"PIP_GPU", "PIP_WIN32_GPU">> >>
      [] OTHER -> <<>>

\* BranchUpdates gone wrong: the platform's gpu pip table is merged into
\* pip_packages at once instead of into PIP_GPU
BranchUpdates_GpuPipAtOnce(b, cp, pp) ==
    CASE b = "darwin" ->
           << <<pp, "PIP_DARWIN">>,
              <<pp, "PIP_DARWIN_GPU">> >>
      [] b = "linux" ->
           << <<cp, "CONDA_LINUX">>,
              <<pp, "PIP_LINUX">>,
              <<pp, "PIP_LINUX_GPU">> >>
      [] b = "win32" ->
           << <<cp, "CONDA_WIN32">>,
              <<pp, "PIP_WIN32">>,
              <<pp, "PIP_WIN32_GPU">> >>
      [] OTHER -> <<>>

\* the update calls of the branch taken at lines 132-142, in order, each
\* as <<updated dict, argument dict>>; cp and pp are what conda_packages and
\* pip_packages refer to
BranchUpdates(b, cp, pp) ==
    CASE b = "darwin" ->
           << <<pp, "PIP_DARWIN">>,
              <<"PIP_GPU", "PIP_DARWIN_GPU">> >>
      [] b = "linux" ->
           << <<cp, "CONDA_LINUX">>,
              <<pp, "PIP_LINUX">>,
              <<"PIP_GPU", "PIP_LINUX_GPU">> >>
      [] b = "win32" ->
           << <<cp, "CONDA_WIN32">>,
              <<pp, "PIP_WIN32">>,
              <<"PIP_GPU", "PIP_WIN32_GPU">> >>
      [] OTHER -> <<>>

\* the update calls of lines 147-148
GpuUpdates(cp, pp) ==
    << <<cp, "CONDA_GPU">>,
       <<pp, "PIP_GPU">> >>

\* the heap after a sequence of update calls
RECURSIVE ApplyUpdates(_, _)
ApplyUpdates(h, us) ==
    IF us = <<>> THEN h
    ELSE ApplyUpdates(Upd(h, Head(us)[1], Head(us)[2]), Tail(us))

\* lines 131-144
PlatformOverlay ==
    /\ pc = "platform"
    /\ LET b == PlatformBranch(platform) IN
         IF b = "unsupported"
         THEN \* raise Exception("Unsupported platform. ...")
              /\ tables' = tables
              /\ pc' = "error"
         ELSE /\ tables' = ApplyUpdates(tables,
                              BranchUpdates(b, conda_packages, pip_packages))
              /\ pc' = "gpu"
    /\ UNCHANGED <<platform, args, conda_env, conda_packages, pip_packages,
                   conda_file, opened, out, stdout, tables0, history, runs>>

\* lines 146-148
GpuOverlay ==
    /\ pc = "gpu"
    /\ tables' = IF args.gpu
                 THEN ApplyUpdates(tables,
                                   GpuUpdates(conda_packages, pip_packages))
                 ELSE tables
    /\ pc' = "open"
    /\ UNCHANGED <<platform, args, conda_env, conda_packages, pip_packages,
                   conda_file, opened, out, stdout, tables0, history, runs>>

\* lines 150-152: open(conda_file, "w")
OpenFile ==
    /\ pc = "open"
    /\ conda_file' = conda_env \o ".yaml"
    /\ opened' = TRUE
    /\ out' = <<>>
    /\ pc' = "header"
    /\ UNCHANGED <<platform, tables, args, conda_env, conda_packages,
                   pip_packages, stdout, tables0, history, runs>>

\* the strings written by  for x in xs: f.write(prefix + x + "\n")
WriteAll(prefix, xs) == [i \in 1..Len(xs) |-> prefix \o xs[i] \o "\n"]

\* lines 153-154
WriteHeader ==
    /\ pc = "header"
    /\ out' = out \o WriteAll("# ", HelpLines(conda_env))
    /\ pc' = "namefield"
    /\ UNCHANGED <<platform, tables, args, conda_env, conda_packages,
                   pip_packages, conda_file, opened, stdout, tables0,
                   history, runs>>

\* line 155
WriteName ==
    /\ pc = "namefield"
    /\ out' = Append(out, "name: " \o conda_env \o "\n")
    /\ pc' = "channels"
    /\ UNCHANGED <<platform, tables, args, conda_env, conda_packages,
                   pip_packages, conda_file, opened, stdout, tables0,
                   history, runs>>

\* lines 156-158
WriteChannels ==
    /\ pc = "channels"
    /\ out' = Append(out, "channels:\n") \o WriteAll("- ", CHANNELS)
    /\ pc' = "deps"
    /\ UNCHANGED <<platform, tables, args, conda_env, conda_packages,
                   pip_packages, conda_file, opened, stdout, tables0,
                   history, runs>>

\* lines 159-161
WriteDeps ==
    /\ pc = "deps"
    /\ out' = Append(out, "dependencies:\n")
                \o WriteAll("- ", Values(tables[conda_packages]))
    /\ pc' = "pip"
    /\ UNCHANGED <<platform, tables, args, conda_env, conda_packages,
                   pip_packages, conda_file, opened, stdout, tables0,
                   history, runs>>

\* lines 162-164
WritePip ==
    /\ pc = "pip"
    /\ out' = Append(out, "- pip:\n")
                \o WriteAll("  - ", Values(tables[pip_packages]))
    /\ pc' = "print"
    /\ UNCHANGED <<platform, tables, args, conda_env, conda_packages,
                   pip_packages, conda_file, opened, stdout, tables0,
                   history, runs>>

\* end of the with block of line 152, then lines 166-167
CloseAndPrint ==
    /\ pc = "print"
    /\ opened' = FALSE
    /\ stdout' = <<"Generated conda file: " \o conda_file, HelpText(conda_env)>>
    /\ history' = history \cup
                    {[name |-> args.name, gpu |-> args.gpu,
                      platform |-> platform, text |-> out]}
    /\ pc' = "done"
    /\ UNCHANGED <<platform, tables, args, conda_env, conda_packages,
                   pip_packages, conda_file, out, tables0, runs>>

\* the main block entered again in the same process, over the module-level
\* tables as the previous invocation left them
Reinvoke ==
    /\ pc = "done"
    /\ runs < MaxRuns
    /\ pc' = "main"
    /\ UNCHANGED <<platform, tables, args, conda_env, conda_packages,
                   pip_packages, conda_file, opened, out, stdout, tables0,
                   history, runs>>

Next ==
    \/ ParseArgs
    \/ SetName
    \/ BindTables
    \/ PlatformOverlay
    \/ GpuOverlay
    \/ OpenFile
    \/ WriteHeader
    \/ WriteName
    \/ WriteChannels
    \/ WriteDeps
    \/ WritePip
    \/ CloseAndPrint
    \/ Reinvoke

Spec == Init /\ [][Next]_vars

-----------------------------------------------------------------------------
(* What the properties below speak about *)

\* the invocation started from the tables as the module literals define them
Fresh == tables0 = InitTables

\* the manifest is complete
Done == pc = "done"

IsLinux == platform \in {linux, linux2}
Supported == platform = darwin \/ IsLinux \/ platform = win32

\* positions in the manifest: 11 header lines, the name line, "channels:",
\* three channels, "dependencies:", the conda entries, "- pip:", the pip
\* entries
NameIdx == Len(HELP_MSG) + 1
DepIdx == NameIdx + 5
PipIdx == CHOOSE i \in 1..Len(out) : out[i] = "- pip:\n"
CondaLines == SubSeq(out, DepIdx + 1, PipIdx - 1)
PipLines == SubSeq(out, PipIdx + 1, Len(out))
Rendered(s) == {s[i] : i \in 1..Len(s)}

CondaEntry(spec) == "- " \o spec \o "\n"
PipEntry(spec) == "  - " \o spec \o "\n"

\* the value of key k in table d
Lookup(d, k) == d[CHOOSE i \in 1..Len(d) : d[i][1] = k][2]

\* the tables the code is to merge for this platform and flag, in the order
\* base, platform overlay, accelerator overlay
CondaMerged ==
    <<CONDA_BASE,
      IF IsLinux THEN CONDA_LINUX
      ELSE IF platform = win32 THEN CONDA_WIN32 ELSE <<>>,
      IF args.gpu THEN CONDA_GPU ELSE <<>> >>

PipMerged ==
    <<PIP_BASE,
      IF IsLinux THEN PIP_LINUX
      ELSE IF platform = win32 THEN PIP_WIN32 ELSE PIP_DARWIN,
      IF ~args.gpu THEN <<>>
      ELSE IF IsLinux THEN PIP_LINUX_GPU
      ELSE IF platform = win32 THEN PIP_WIN32_GPU ELSE PIP_DARWIN_GPU >>

AllKeys(ts) == UNION {KeySet(ts[i]) : i \in 1..Len(ts)}

\* the value of k in the last table of ts that has k
LastValue(ts, k) ==
    LET last == CHOOSE i \in 1..Len(ts) :
                   /\ k \in KeySet(ts[i])
                   /\ \A j \in (i + 1)..Len(ts) : k \notin KeySet(ts[j])
    IN Lookup(ts[last], k)

\* the keys of o that d does not have, in o's order
NewKeys(d, o) == SelectSeq(Keys(o), LAMBDA k : k \notin KeySet(d))

\* the key order of merging ts[1], ts[2], ts[3]: the keys of the first, then
\* the keys new in the second, then the keys new in the third
MergedOrder(ts) ==
    LET k1 == Keys(ts[1])
        k2 == k1 \o NewKeys(ts[1], ts[2])
    IN k2 \o SelectSeq(Keys(ts[3]),
                       LAMBDA k : k \notin KeySet(ts[1]) \cup KeySet(ts[2]))

-----------------------------------------------------------------------------
(* C1 *)

\* C1: with no --name the output file is nlp_cpu.yaml when --gpu is off and
\* nlp_gpu.yaml when it is on; with --name N it is N.yaml whatever --gpu is;
\* the same name is written in the "name:" line of the manifest.
C1_NameResolution ==
    LET expected ==
          IF args.name = None
          THEN (IF args.gpu THEN "nlp_gpu" ELSE "nlp_cpu")
          ELSE args.name[1]
    IN /\ pc \in {"header", "namefield", "channels", "deps", "pip",
                  "print", "done"}
          => conda_file = expected \o ".yaml"
       /\ pc \in {"channels", "deps", "pip", "print", "done"}
          => out[NameIdx] = "name: " \o expected \o "\n"

C1_Witness ==
    /\ Done
    /\ args.name = <<"foo">>
    /\ args.gpu
    /\ conda_file = "foo.yaml"
    /\ out[NameIdx] = "name: foo\n"

-----------------------------------------------------------------------------
(* C2 *)

\* C2: on a platform that is not darwin, not win32 and does not start with
\* "linux", whatever the name and the flag, the invocation never gets past
\* the platform check, no output file is named, opened or written, and the
\* step that leaves the platform check ends in the unsupported-platform
\* error.
C2_UnsupportedPlatform ==
    /\ [](~Supported =>
            /\ pc \in {"main", "name", "bind", "platform", "error"}
            /\ ~opened
            /\ conda_file = Unset
            /\ out = <<>>
            /\ history = {})
    /\ [][(~Supported /\ pc = "platform") => pc' = "error"]_vars

C2_Witness ==
    /\ pc = "error"
    /\ platform = cygwin
    /\ args.gpu
    /\ args.name = <<"foo">>
    /\ ~opened

-----------------------------------------------------------------------------
(* C3 *)

\* C3: in an invocation from the initial tables, every key of the merged
\* tables is rendered with the value of the last table that has it, in the
\* order base, platform overlay, accelerator overlay.  With --gpu, pytorch is
\* rendered as pytorch>=1.0.0 and tensorflow as tensorflow-gpu==1.12.0 on
\* every platform, and neither the base values nor win32's pytorch==1.0.0
\* are rendered.
C3_MergeOverride ==
    (Fresh /\ Done) =>
        /\ \A k \in AllKeys(CondaMerged) :
              /\ Lookup(tables[conda_packages], k) = LastValue(CondaMerged, k)
              /\ CondaEntry(LastValue(CondaMerged, k)) \in Rendered(CondaLines)
        /\ \A k \in AllKeys(PipMerged) :
              /\ Lookup(tables[pip_packages], k) = LastValue(PipMerged, k)
              /\ PipEntry(LastValue(PipMerged, k)) \in Rendered(PipLines)
        /\ args.gpu =>
              /\ "- pytorch>=1.0.0\n" \in Rendered(CondaLines)
              /\ "- tensorflow-gpu==1.12.0\n" \in Rendered(CondaLines)
              /\ "- pytorch-cpu>=1.0.0\n" \notin Rendered(CondaLines)
              /\ "- tensorflow==1.12.0\n" \notin Rendered(CondaLines)
              /\ "- pytorch==1.0.0\n" \notin Rendered(CondaLines)

C3_Witness ==
    /\ Fresh
    /\ Done
    /\ args.gpu
    /\ platform = win32
    /\ "- pytorch>=1.0.0\n" \in Rendered(CondaLines)

-----------------------------------------------------------------------------
(* C4 *)

\* C4: in an invocation from the initial tables, the resolved conda table has
\* exactly the keys of CONDA_BASE, of the platform's conda overlay and, with
\* --gpu only, of CONDA_GPU; the resolved pip table has exactly the keys of
\* PIP_BASE, of the platform's pip overlay and, with --gpu only, of the
\* platform's pip gpu overlay; no key occurs twice; each rendered list has
\* one entry per key.
C4_KeySetExact ==
    (Fresh /\ Done) =>
        LET conda == tables[conda_packages]
            pip == tables[pip_packages]
        IN /\ KeySet(conda) = AllKeys(CondaMerged)
           /\ KeySet(pip) = AllKeys(PipMerged)
           /\ \A i, j \in 1..Len(conda) : conda[i][1] = conda[j][1] => i = j
           /\ \A i, j \in 1..Len(pip) : pip[i][1] = pip[j][1] => i = j
           /\ Len(CondaLines) = Cardinality(AllKeys(CondaMerged))
           /\ Len(PipLines) = Cardinality(AllKeys(PipMerged))
           /\ ~args.gpu => "numba" \notin KeySet(conda)

C4_Witness ==
    /\ Fresh
    /\ Done
    /\ args.gpu
    /\ IsLinux
    /\ Len(CondaLines) = 16
    /\ Len(PipLines) = 26

-----------------------------------------------------------------------------
(* C5 *)

-----------------------------------------------------------------------------
(* C6 *)

\* the manifest of environment env with the given conda and pip specifiers
Manifest(env, condaSpecs, pipSpecs) ==
    << "# \n",
       "# To create the conda environment:\n",
       "# $ conda env create -f " \o env \o ".yaml\n",
       "# \n",
       "# To update the conda environment:\n",
       "# $ conda env update -f " \o env \o ".yaml\n",
       "# \n",
       "# To register the conda environment in Jupyter:\n",
       "# $ conda activate " \o env \o "\n",
       "# $ python -m ipykernel install --user --name " \o env
            \o " --display-name \"Python (" \o env \o ")\"\n",
       "# \n",
       "name: " \o env \o "\n",
       "channels:\n",
       "- defaults\n",
       "- conda-forge\n",
       "- pytorch\n",
       "dependencies:\n" >>
    \o [i \in 1..Len(condaSpecs) |-> "- " \o condaSpecs[i] \o "\n"]
    \o <<"- pip:\n">>
    \o [i \in 1..Len(pipSpecs) |-> "  - " \o pipSpecs[i] \o "\n"]

IsPrefix(s, t) == Len(s) <= Len(t) /\ s = SubSeq(t, 1, Len(s))

\* C6: the manifest is written in the fixed order header, name, channels
\* (defaults, conda-forge, pytorch), dependencies, pip block and holds
\* nothing else; nothing is written before the merging is over: whatever has
\* been written is the beginning of the manifest of the tables as they are.
C6_Layout ==
    LET m == Manifest(conda_env,
                      [i \in 1..Len(tables[conda_packages]) |->
                           tables[conda_packages][i][2]],
                      [i \in 1..Len(tables[pip_packages]) |->
                           tables[pip_packages][i][2]])
    IN /\ pc \in {"name", "bind", "platform", "gpu", "open", "error"}
          => (out = <<>> /\ ~opened)
       /\ opened => (pc \in {"header", "namefield", "channels", "deps",
                             "pip", "print"}
                     /\ IsPrefix(out, m))
       /\ pc \in {"print", "done"} => out = m

C6_Witness ==
    /\ Done
    /\ platform = darwin
    /\ args.name = None
    /\ ~args.gpu
    /\ Fresh
    /\ Len(out) = 17 + 14 + 1 + 25
    /\ out[14] = "- defaults\n"
    /\ out[32] = "- pip:\n"

-----------------------------------------------------------------------------
(* C7 *)

\* C7: after an invocation every static table holds what it held before the
\* invocation.
C7_TablesReadOnly == Done => tables = tables0

-----------------------------------------------------------------------------
(* C8 *)

BaseCondaLines == [i \in 1..Len(CONDA_BASE) |-> CondaEntry(CONDA_BASE[i][2])]

\* C8 as the specification states it: without --gpu, from the initial
\* tables, linux renders the base list plus cudatoolkit>=9.2, and darwin and
\* win32 render exactly the base list.
C8_OnlyLinuxOverlay ==
    (Fresh /\ Done /\ ~args.gpu) =>
        /\ IsLinux =>
              CondaLines = Append(BaseCondaLines, "- cudatoolkit>=9.2\n")
        /\ (platform = darwin \/ platform = win32) =>
              CondaLines = BaseCondaLines

\* C8 amended: linux and win32 both have a conda overlay.  Without --gpu,
\* from the initial tables, linux renders the base list plus
\* cudatoolkit>=9.2; darwin renders exactly the base list; win32 renders the
\* base list with pytorch as pytorch==1.0.0, followed by cuda90.
C8_PlatformCondaOverlay ==
    (Fresh /\ Done /\ ~args.gpu) =>
        /\ IsLinux =>
              CondaLines = Append(BaseCondaLines, "- cudatoolkit>=9.2\n")
        /\ platform = darwin =>
              CondaLines = BaseCondaLines
        /\ platform = win32 =>
              CondaLines =
                 Append([i \in 1..Len(CONDA_BASE) |->
                            IF CONDA_BASE[i][1] = "pytorch"
                            THEN "- pytorch==1.0.0\n"
                            ELSE BaseCondaLines[i]],
                        "- cuda90\n")

C8_Witness ==
    /\ Fresh
    /\ Done
    /\ ~args.gpu
    /\ platform = win32
    /\ CondaLines[9] = "- pytorch==1.0.0\n"
    /\ CondaLines[15] = "- cuda90\n"

-----------------------------------------------------------------------------
(* C9 *)

BasePipLines == [i \in 1..Len(PIP_BASE) |-> PipEntry(PIP_BASE[i][2])]

\* C9: from the initial tables, the pip list has the horovod entry exactly
\* when --gpu is on and the platform is linux or darwin; in every other case
\* the pip list is exactly the base pip list.
C9_Horovod ==
    (Fresh /\ Done) =>
        LET accel == args.gpu /\ (IsLinux \/ platform = darwin)
        IN /\ ("  - horovod>=0.16.1\n" \in Rendered(PipLines)) <=> accel
           /\ ~accel => PipLines = BasePipLines
           /\ \A i \in 1..(PipIdx - 1) : out[i] # "  - horovod>=0.16.1\n"

C9_Witness ==
    /\ Fresh
    /\ Done
    /\ args.gpu
    /\ platform = darwin
    /\ PipLines[26] = "  - horovod>=0.16.1\n"

-----------------------------------------------------------------------------
(* C10 *)

\* C10: from the initial tables, the rendered entries follow the base
\* table's key order, an overridden key stays where the base table has it,
\* and new keys follow all existing ones, the platform overlay's before the
\* accelerator overlay's.  On linux with --gpu the conda list ends with the
\* cudatoolkit entry then the numba entry, with pytorch and tensorflow at
\* their base positions 9 and 11.
C10_MergeOrder ==
    (Fresh /\ Done) =>
        LET conda == tables[conda_packages]
            pip == tables[pip_packages]
        IN /\ Keys(conda) = MergedOrder(CondaMerged)
           /\ Keys(pip) = MergedOrder(PipMerged)
           /\ SubSeq(Keys(conda), 1, Len(CONDA_BASE)) = Keys(CONDA_BASE)
           /\ SubSeq(Keys(pip), 1, Len(PIP_BASE)) = Keys(PIP_BASE)
           /\ CondaLines = [i \in 1..Len(conda) |-> CondaEntry(conda[i][2])]
           /\ PipLines = [i \in 1..Len(pip) |-> PipEntry(pip[i][2])]
           /\ (IsLinux /\ args.gpu) =>
                 /\ Len(CondaLines) = 16
                 /\ CondaLines[15] = "- cudatoolkit>=9.2\n"
                 /\ CondaLines[16] = "- numba>=0.38.1\n"
                 /\ CondaLines[9] = "- pytorch>=1.0.0\n"
                 /\ CondaLines[11] = "- tensorflow-gpu==1.12.0\n"

C10_Witness ==
    /\ Fresh
    /\ Done
    /\ platform = linux2
    /\ args.gpu
    /\ CondaLines[16] = "- numba>=0.38.1\n"
    /\ CondaLines[9] = "- pytorch>=1.0.0\n"

====
